---- MODULE Spec2Model ----
(***************************************************************************)
(* Finance dashboard backend: the standalone functions of app.py and the   *)
(* FinancialProcessor class of processor.py.                               *)
(*                                                                         *)
(* Text is a sequence of one-character strings, so that lower(), replace(),*)
(* strip(), "in", endswith(), split() and the regular expressions are      *)
(* computed character by character.  Characters outside ASCII are named:   *)
(* "RUPEE" U+20B9, "EURO" U+20AC, "A_CIRC" U+00E2, "LOW9" U+201A, "SUP1"   *)
(* U+00B9.                                                                 *)
(*                                                                         *)
(* A float is [nan, v]: v counts thousandths.  Every amount of the input   *)
(* catalogues has at most two decimals, so that * 0.7, * 0.3 and * 0.1 are *)
(* exact; binary rounding of IEEE doubles is not modelled.                 *)
(***************************************************************************)
EXTENDS Integers, Sequences, FiniteSets, TLC

VARIABLES op, arg, ret, pc, files, idx, all_transactions, processed_files_status

vars == <<op, arg, ret, pc, files, idx, all_transactions, processed_files_status>>

----------------------------------------------------------------------------
(* Bounds of the model *)

\* Longest batch of uploaded files.
MaxFiles == 2

\* Longest transaction list handed to generate_reports.
MaxTx == 2

----------------------------------------------------------------------------
(* Python's str operations *)

UpperCase == <<"A","B","C","D","E","F","G","H","I","J","K","L","M","N","O","P","Q","R","S","T","U","V","W","X","Y","Z">>

LowerCase == <<"a","b","c","d","e","f","g","h","i","j","k","l","m","n","o","p","q","r","s","t","u","v","w","x","y","z">>

DigitChars == <<"0","1","2","3","4","5","6","7","8","9">>

DigitSet == {DigitChars[i] : i \in 1..10}

\* str.strip() and the regular expressions' \s
Whitespace == {" ", "\t", "\n", "\r", "\f"}

LowerChar(c) ==
    IF \E i \in 1..26 : UpperCase[i] = c
    THEN LowerCase[CHOOSE i \in 1..26 : UpperCase[i] = c]
    ELSE c

\* s.lower()
Lower(s) == [i \in 1..Len(s) |-> LowerChar(s[i])]

\* t in s
Contains(s, t) == \E i \in 1..(Len(s) - Len(t) + 1) : SubSeq(s, i, i + Len(t) - 1) = t

\* any(term in s for term in terms)
ContainsAny(s, terms) == \E k \in 1..Len(terms) : Contains(s, terms[k])

\* s.endswith(suffix)
EndsWith(s, suffix) ==
    Len(s) >= Len(suffix) /\ SubSeq(s, Len(s) - Len(suffix) + 1, Len(s)) = suffix

RECURSIVE Remove(_, _)
\* s.replace(old, ''), old not empty: non-overlapping occurrences, left to right
Remove(s, old) ==
    IF Len(s) < Len(old) THEN s
    ELSE IF SubSeq(s, 1, Len(old)) = old
         THEN Remove(SubSeq(s, Len(old) + 1, Len(s)), old)
         ELSE <<s[1]>> \o Remove(Tail(s), old)

RECURSIVE LStrip(_)
LStrip(s) == IF s # <<>> /\ s[1] \in Whitespace THEN LStrip(Tail(s)) ELSE s

RECURSIVE RStrip(_)
RStrip(s) ==
    IF s # <<>> /\ s[Len(s)] \in Whitespace THEN RStrip(SubSeq(s, 1, Len(s) - 1)) ELSE s

\* s.strip()
Strip(s) == RStrip(LStrip(s))

RECURSIVE Split(_, _)
\* s.split(sep) for a one-character sep
Split(s, sep) ==
    IF \E i \in 1..Len(s) : s[i] = sep
    THEN LET i == CHOOSE j \in 1..Len(s) : s[j] = sep /\ \A k \in 1..(j - 1) : s[k] # sep
         IN  <<SubSeq(s, 1, i - 1)>> \o Split(SubSeq(s, i + 1, Len(s)), sep)
    ELSE <<s>>

----------------------------------------------------------------------------
(* Python's float *)

Num(n) == [nan |-> FALSE, v |-> n]

NaN == [nan |-> TRUE, v |-> 0]

\* n whole units, in thousandths
Units(n) == n * 1000

FAbs(x) == IF x.nan THEN x ELSE Num(IF x.v < 0 THEN -x.v ELSE x.v)

FNeg(x) == IF x.nan THEN x ELSE Num(-x.v)

FAdd(x, y) == IF x.nan \/ y.nan THEN NaN ELSE Num(x.v + y.v)

FSub(x, y) == IF x.nan \/ y.nan THEN NaN ELSE Num(x.v - y.v)

\* x * 0.k for a digit k
FTenths(x, k) == IF x.nan THEN NaN ELSE Num((x.v * k) \div 10)

\* x == 0 (false of nan)
FIsZero(x) == ~x.nan /\ x.v = 0

\* x > 0 (false of nan)
FPositive(x) == ~x.nan /\ x.v > 0

DigitVal(c) == CHOOSE d \in 0..9 : DigitChars[d + 1] = c

IsDigits(s) == \A i \in 1..Len(s) : s[i] \in DigitSet

RECURSIVE DigitsValue(_)
DigitsValue(s) ==
    IF s = <<>> THEN 0
    ELSE DigitsValue(SubSeq(s, 1, Len(s) - 1)) * 10 + DigitVal(s[Len(s)])

\* The first three decimals of a fraction, in thousandths.
FractionValue(s) ==
    DigitsValue([i \in 1..3 |-> IF i <= Len(s) THEN s[i] ELSE "0"])

\* The position of the first "." of body, Len(body) + 1 when it has none.
FirstDot(body) ==
    IF \E i \in 1..Len(body) : body[i] = "."
    THEN CHOOSE i \in 1..Len(body) :
             body[i] = "." /\ \A j \in 1..(i - 1) : body[j] # "."
    ELSE Len(body) + 1

\* digits [. [digits]] | . digits, split at its first dot
Unsigned(body, dot) ==
    IF /\ IsDigits(SubSeq(body, 1, dot - 1))
       /\ IsDigits(SubSeq(body, dot + 1, Len(body)))
       /\ (dot > 1 \/ dot < Len(body))
    THEN [ok |-> TRUE,
          f |-> Num(DigitsValue(SubSeq(body, 1, dot - 1)) * 1000
                    + FractionValue(SubSeq(body, dot + 1, Len(body))))]
    ELSE [ok |-> FALSE]

Signed(neg, r) == IF r.ok /\ neg THEN [ok |-> TRUE, f |-> FNeg(r.f)] ELSE r

PyFloatBody(neg, body) ==
    IF Lower(body) = <<"n","a","n">> THEN [ok |-> TRUE, f |-> NaN]
    ELSE Signed(neg, Unsigned(body, FirstDot(body)))

PyFloatStripped(t) ==
    IF t # <<>> /\ t[1] \in {"+", "-"} THEN PyFloatBody(t[1] = "-", Tail(t))
    ELSE PyFloatBody(FALSE, t)

\* float(s): [ok |-> FALSE] is ValueError.  The grammar is
\* [sign] (digits [. [digits]] | . digits | nan) between whitespace; exponents,
\* underscores and inf do not occur in the catalogues.
PyFloat(s) == PyFloatStripped(Strip(s))

RECURSIVE NatText(_)
NatText(n) ==
    IF n < 10 THEN <<DigitChars[n + 1]>>
    ELSE NatText(n \div 10) \o <<DigitChars[(n % 10) + 1]>>

\* str(n) of an int
IntText(n) == IF n < 0 THEN <<"-">> \o NatText(-n) ELSE NatText(n)

\* The fraction fr (in thousandths) without its trailing zeros, one digit at least.
FractionText(fr) ==
    SubSeq(<<DigitChars[(fr \div 100) + 1], DigitChars[((fr \div 10) % 10) + 1],
             DigitChars[(fr % 10) + 1]>>,
           1, IF fr % 100 = 0 THEN 1 ELSE IF fr % 10 = 0 THEN 2 ELSE 3)

\* str(x) of a float: the shortest decimal with at least one fraction digit
FloatText(x) ==
    IF x.nan THEN <<"n","a","n">>
    ELSE IF x.v < 0
         THEN <<"-">> \o NatText((-x.v) \div 1000) \o <<".">> \o FractionText((-x.v) % 1000)
         ELSE NatText(x.v \div 1000) \o <<".">> \o FractionText(x.v % 1000)

----------------------------------------------------------------------------
(* Raw values of a record: None, int, float (nan is pandas' empty cell), str *)

None == [kind |-> "none"]

IntV(n) == [kind |-> "int", n |-> n]

FloatV(x) == [kind |-> "float", f |-> x]

TextV(s) == [kind |-> "str", s |-> s]

\* str(value)
Str(value) ==
    CASE value.kind = "none"  -> <<"N","o","n","e">>
      [] value.kind = "int"   -> IntText(value.n)
      [] value.kind = "float" -> FloatText(value.f)
      [] value.kind = "str"   -> value.s

\* float(value) of an int or a float
ToFloat(value) == IF value.kind = "int" THEN Num(Units(value.n)) ELSE value.f

----------------------------------------------------------------------------
(* The chart of accounts: main categories, sub-categories and keywords, in *)
(* declaration order (the iteration order of the dicts)                    *)

CHART_OF_ACCOUNTS ==
    << [main |-> <<"i","n","c","o","m","e">>, sub_cats |-> <<
          [sub |-> <<"s","a","l","a","r","y">>, keywords |-> <<<<"s","a","l","a","r","y">>, <<"p","a","y","r","o","l","l">>, <<"w","a","g","e","s">>>>],
          [sub |-> <<"b","u","s","i","n","e","s","s">>, keywords |-> <<<<"f","r","e","e","l","a","n","c","e">>, <<"c","o","n","s","u","l","t","i","n","g">>, <<"c","l","i","e","n","t">>, <<"p","r","o","j","e","c","t">>>>],
          [sub |-> <<"i","n","v","e","s","t","m","e","n","t">>, keywords |-> <<<<"d","i","v","i","d","e","n","d">>, <<"i","n","t","e","r","e","s","t">>, <<"r","e","t","u","r","n">>, <<"y","i","e","l","d">>>>],
          [sub |-> <<"o","t","h","e","r","_","i","n","c","o","m","e">>, keywords |-> <<<<"r","e","f","u","n","d">>, <<"r","e","i","m","b","u","r","s","e","m","e","n","t">>, <<"g","i","f","t">>>>] >>],
       [main |-> <<"e","x","p","e","n","s","e","s">>, sub_cats |-> <<
          [sub |-> <<"h","o","u","s","i","n","g">>, keywords |-> <<<<"r","e","n","t">>, <<"m","o","r","t","g","a","g","e">>, <<"e","m","i">>, <<"h","o","u","s","e">>, <<"a","p","a","r","t","m","e","n","t">>>>],
          [sub |-> <<"u","t","i","l","i","t","i","e","s">>, keywords |-> <<<<"e","l","e","c","t","r","i","c">>, <<"w","a","t","e","r">>, <<"b","i","l","l">>, <<"u","t","i","l","i","t","y">>, <<"i","n","t","e","r","n","e","t">>, <<"m","o","b","i","l","e">>>>],
          [sub |-> <<"f","o","o","d">>, keywords |-> <<<<"g","r","o","c","e","r","y">>, <<"r","e","s","t","a","u","r","a","n","t">>, <<"f","o","o","d">>, <<"d","i","n","i","n","g">>, <<"s","u","p","e","r","m","a","r","k","e","t">>>>],
          [sub |-> <<"t","r","a","n","s","p","o","r","t">>, keywords |-> <<<<"f","u","e","l">>, <<"p","e","t","r","o","l">>, <<"u","b","e","r">>, <<"o","l","a">>, <<"t","r","a","n","s","p","o","r","t">>, <<"b","u","s">>, <<"t","r","a","i","n">>>>],
          [sub |-> <<"h","e","a","l","t","h","c","a","r","e">>, keywords |-> <<<<"m","e","d","i","c","a","l">>, <<"h","o","s","p","i","t","a","l">>, <<"d","o","c","t","o","r">>, <<"p","h","a","r","m","a","c","y">>, <<"m","e","d","i","c","i","n","e">>>>],
          [sub |-> <<"e","n","t","e","r","t","a","i","n","m","e","n","t">>, keywords |-> <<<<"m","o","v","i","e">>, <<"n","e","t","f","l","i","x">>, <<"p","r","i","m","e">>, <<"e","n","t","e","r","t","a","i","n","m","e","n","t">>, <<"g","a","m","e">>>>],
          [sub |-> <<"s","h","o","p","p","i","n","g">>, keywords |-> <<<<"s","h","o","p","p","i","n","g">>, <<"m","a","l","l">>, <<"a","m","a","z","o","n">>, <<"f","l","i","p","k","a","r","t">>, <<"p","u","r","c","h","a","s","e">>>>] >>] >>

\* FinancialProcessor.__init__: self.chart_of_accounts
chart_of_accounts ==
    << [main |-> <<"i","n","c","o","m","e">>, sub_cats |-> <<
          [sub |-> <<"s","a","l","a","r","y">>, keywords |-> <<<<"s","a","l","a","r","y">>, <<"p","a","y","r","o","l","l">>, <<"w","a","g","e","s">>>>],
          [sub |-> <<"b","u","s","i","n","e","s","s">>, keywords |-> <<<<"f","r","e","e","l","a","n","c","e">>, <<"c","o","n","s","u","l","t","i","n","g">>, <<"c","l","i","e","n","t">>, <<"p","r","o","j","e","c","t">>>>],
          [sub |-> <<"i","n","v","e","s","t","m","e","n","t">>, keywords |-> <<<<"d","i","v","i","d","e","n","d">>, <<"i","n","t","e","r","e","s","t">>, <<"r","e","t","u","r","n">>, <<"y","i","e","l","d">>>>],
          [sub |-> <<"o","t","h","e","r","_","i","n","c","o","m","e">>, keywords |-> <<<<"r","e","f","u","n","d">>, <<"r","e","i","m","b","u","r","s","e","m","e","n","t">>, <<"g","i","f","t">>>>] >>],
       [main |-> <<"e","x","p","e","n","s","e","s">>, sub_cats |-> <<
          [sub |-> <<"h","o","u","s","i","n","g">>, keywords |-> <<<<"r","e","n","t">>, <<"m","o","r","t","g","a","g","e">>, <<"e","m","i">>, <<"h","o","u","s","e">>, <<"a","p","a","r","t","m","e","n","t">>>>],
          [sub |-> <<"u","t","i","l","i","t","i","e","s">>, keywords |-> <<<<"e","l","e","c","t","r","i","c">>, <<"w","a","t","e","r">>, <<"b","i","l","l">>, <<"u","t","i","l","i","t","y">>, <<"i","n","t","e","r","n","e","t">>, <<"m","o","b","i","l","e">>>>],
          [sub |-> <<"f","o","o","d">>, keywords |-> <<<<"g","r","o","c","e","r","y">>, <<"r","e","s","t","a","u","r","a","n","t">>, <<"f","o","o","d">>, <<"d","i","n","i","n","g">>, <<"s","u","p","e","r","m","a","r","k","e","t">>>>],
          [sub |-> <<"t","r","a","n","s","p","o","r","t">>, keywords |-> <<<<"f","u","e","l">>, <<"p","e","t","r","o","l">>, <<"u","b","e","r">>, <<"o","l","a">>, <<"t","r","a","n","s","p","o","r","t">>, <<"b","u","s">>, <<"t","r","a","i","n">>>>],
          [sub |-> <<"h","e","a","l","t","h","c","a","r","e">>, keywords |-> <<<<"m","e","d","i","c","a","l">>, <<"h","o","s","p","i","t","a","l">>, <<"d","o","c","t","o","r">>, <<"p","h","a","r","m","a","c","y">>, <<"m","e","d","i","c","i","n","e">>>>],
          [sub |-> <<"e","n","t","e","r","t","a","i","n","m","e","n","t">>, keywords |-> <<<<"m","o","v","i","e">>, <<"n","e","t","f","l","i","x">>, <<"p","r","i","m","e">>, <<"e","n","t","e","r","t","a","i","n","m","e","n","t">>, <<"g","a","m","e">>>>],
          [sub |-> <<"s","h","o","p","p","i","n","g">>, keywords |-> <<<<"s","h","o","p","p","i","n","g">>, <<"m","a","l","l">>, <<"a","m","a","z","o","n">>, <<"f","l","i","p","k","a","r","t">>, <<"p","u","r","c","h","a","s","e">>>>] >>] >>

----------------------------------------------------------------------------
(* parse_amount *)

\* float(cleaned), 0 on ValueError
FloatOrZero(result) == IF result.ok THEN result.f ELSE Num(0)

\* return float(cleaned) if cleaned else 0, and the except clause
CleanedAmount(cleaned) == IF cleaned = <<>> THEN Num(0) ELSE FloatOrZero(PyFloat(cleaned))

\* app.py parse_amount
parse_amount(value) ==
    IF value = None \/ value = TextV(<<>>) THEN Num(0)
    ELSE IF value.kind \in {"int", "float"} THEN ToFloat(value)
    ELSE CleanedAmount(Strip(Remove(Remove(Remove(Remove(Str(value),
             <<",">>), <<"RUPEE">>), <<"$">>), <<"EURO">>)))

\* pd.isna(value) of a scalar
IsNa(value) == value = None \/ (value.kind = "float" /\ value.f.nan)

\* processor.py FinancialProcessor.parse_amount: the symbol it removes is the
\* three characters U+00E2 U+201A U+00B9, and it removes no euro sign
FinancialProcessor_parse_amount(value) ==
    IF IsNa(value) \/ value = None THEN Num(0)
    ELSE IF value.kind \in {"int", "float"} THEN ToFloat(value)
    ELSE CleanedAmount(Strip(Remove(Remove(Remove(Str(value),
             <<",">>), <<"A_CIRC", "LOW9", "SUP1">>), <<"$">>)))

----------------------------------------------------------------------------
(* categorize_transaction *)

RECURSIVE ScanChart(_, _, _, _)
\* The two nested loops over the chart, from sub-category s of main category m:
\* the first sub-category one of whose keywords is in desc_lower.
ScanChart(chart, desc_lower, m, s) ==
    IF m > Len(chart) THEN <<"u","n","c","a","t","e","g","o","r","i","z","e","d">>
    ELSE IF s > Len(chart[m].sub_cats) THEN ScanChart(chart, desc_lower, m + 1, 1)
    ELSE IF ContainsAny(desc_lower, chart[m].sub_cats[s].keywords)
         THEN chart[m].main \o <<"_">> \o chart[m].sub_cats[s].sub
         ELSE ScanChart(chart, desc_lower, m, s + 1)

\* A scan that looks at the expenses before the income.
categorize_transaction_expenses_first(description) ==
    ScanChart(<<CHART_OF_ACCOUNTS[2], CHART_OF_ACCOUNTS[1]>>, Lower(description), 1, 1)

\* app.py categorize_transaction
categorize_transaction(description) ==
    ScanChart(CHART_OF_ACCOUNTS, Lower(description), 1, 1)

\* processor.py FinancialProcessor.categorize_transaction
FinancialProcessor_categorize_transaction(description) ==
    ScanChart(chart_of_accounts, Lower(description), 1, 1)

----------------------------------------------------------------------------
(* extract_transaction.  A row is a sequence of <<key, value>> pairs in the *)
(* dict's iteration order; keys are text.                                   *)

AmountTerms == <<<<"a","m","o","u","n","t">>, <<"a","m","t">>, <<"v","a","l","u","e">>>>

DebitTerms == <<<<"d","e","b","i","t">>, <<"w","i","t","h","d","r","a","w","a","l">>, <<"d","r">>>>

CreditTerms == <<<<"c","r","e","d","i","t">>, <<"d","e","p","o","s","i","t">>, <<"c","r">>>>

DescriptionTerms == <<<<"d","e","s","c","r","i","p","t","i","o","n">>, <<"d","e","s","c">>, <<"p","a","r","t","i","c","u","l","a","r","s">>, <<"n","a","r","r","a","t","i","o","n">>, <<"d","e","t","a","i","l","s">>>>

DateTerms == <<<<"d","a","t","e">>>>

\* The return value None of extract_transaction and parse_pdf_line.
NoTransaction == [absent |-> TRUE]

ParseAmountOf(impl, value) ==
    IF impl = "app" THEN parse_amount(value) ELSE FinancialProcessor_parse_amount(value)

\* The branch of the if/elif chain a lowercased key takes.
KeyClass(key_lower) ==
    IF ContainsAny(key_lower, AmountTerms) THEN "amount"
    ELSE IF ContainsAny(key_lower, DebitTerms) THEN "debit"
    ELSE IF ContainsAny(key_lower, CreditTerms) THEN "credit"
    ELSE "none"

\* amount = parsed, -abs(parsed) or abs(parsed)
SignedAmount(class, parsed) ==
    IF class = "amount" THEN parsed
    ELSE IF class = "debit" THEN FNeg(FAbs(parsed))
    ELSE FAbs(parsed)

\* if key and value is not None, and one of the three branches is taken
SetsAmount(field) ==
    field[1] # <<>> /\ field[2] # None /\ KeyClass(Lower(field[1])) # "none"

AmountOfField(impl, field) ==
    SignedAmount(KeyClass(Lower(field[1])), ParseAmountOf(impl, field[2]))

RECURSIVE ScanAmountLastWins(_, _, _, _)
\* The amount loop without its break statements: the last matching field wins.
ScanAmountLastWins(impl, row, i, amount) ==
    IF i > Len(row) THEN amount
    ELSE IF SetsAmount(row[i])
         THEN ScanAmountLastWins(impl, row, i + 1, AmountOfField(impl, row[i]))
         ELSE ScanAmountLastWins(impl, row, i + 1, amount)

RECURSIVE ScanAmount(_, _, _, _)
\* The amount loop from field i on: amount keeps its value until a field with a
\* key, a value that is not None and an amount, debit or credit term in its
\* lowercased key sets it and breaks.
ScanAmount(impl, row, i, amount) ==
    IF i > Len(row) THEN amount
    ELSE IF SetsAmount(row[i]) THEN AmountOfField(impl, row[i])
    ELSE ScanAmount(impl, row, i + 1, amount)

RECURSIVE FirstField(_, _, _, _)
\* next((str(value) for key, value in row.items()
\*       if key and any(term in str(key).lower() for term in terms)), default)
FirstField(row, terms, i, default) ==
    IF i > Len(row) THEN default
    ELSE IF row[i][1] # <<>> /\ ContainsAny(Lower(row[i][1]), terms)
         THEN Str(row[i][2])
         ELSE FirstField(row, terms, i + 1, default)

\* 'income' if amount > 0 else 'expense'
TypeOf(amount) == IF FPositive(amount) THEN "income" ELSE "expense"

\* if amount == 0: return None, else the dict
TransactionOrNone(date, description, amount, category) ==
    IF FIsZero(amount) THEN NoTransaction
    ELSE [date |-> date, description |-> description, amount |-> amount,
          category |-> category, type |-> TypeOf(amount)]

\* The transaction with the category of its description.
Categorized(impl, date, description, amount) ==
    TransactionOrNone(date, description, amount,
                      IF impl = "app" THEN categorize_transaction(description)
                      ELSE FinancialProcessor_categorize_transaction(description))

\* app.py extract_transaction
extract_transaction(row) ==
    Categorized("app",
                FirstField(row, DateTerms, 1, <<>>),
                FirstField(row, DescriptionTerms, 1, <<"U","n","k","n","o","w","n"," ","T","r","a","n","s","a","c","t","i","o","n">>),
                ScanAmount("app", row, 1, Num(0)))

\* processor.py FinancialProcessor.extract_transaction
FinancialProcessor_extract_transaction(row) ==
    Categorized("processor",
                FirstField(row, DateTerms, 1, <<>>),
                FirstField(row, DescriptionTerms, 1, <<"U","n","k","n","o","w","n">>),
                ScanAmount("processor", row, 1, Num(0)))

----------------------------------------------------------------------------
(* parse_pdf_line.  A pattern is a sequence of elements [any, chars, lo,   *)
(* hi, greedy]: between lo and hi characters (hi = -1: no limit) of a      *)
(* class, the longest run first when greedy and the shortest first when    *)
(* lazy, as re's backtracking tries them.                                  *)

Elem(chars, lo, hi) == [any |-> FALSE, chars |-> chars, lo |-> lo, hi |-> hi, greedy |-> TRUE]

\* .*?
LazyAny == [any |-> TRUE, chars |-> {}, lo |-> 0, hi |-> -1, greedy |-> FALSE]

\* (\d{1,2}/\d{1,2}/\d{2,4})\s+(.*?)\s+([\d,]+\.\d{2})\s+([\d,]+\.\d{2})
PatternA ==
    << Elem(DigitSet, 1, 2), Elem({"/"}, 1, 1), Elem(DigitSet, 1, 2), Elem({"/"}, 1, 1),
       Elem(DigitSet, 2, 4), Elem(Whitespace, 1, -1), LazyAny, Elem(Whitespace, 1, -1),
       Elem(DigitSet \cup {","}, 1, -1), Elem({"."}, 1, 1), Elem(DigitSet, 2, 2),
       Elem(Whitespace, 1, -1),
       Elem(DigitSet \cup {","}, 1, -1), Elem({"."}, 1, 1), Elem(DigitSet, 2, 2) >>

\* (\d{1,2}-\d{1,2}-\d{2,4})\s+(.*?)\s+(-?[\d,]+\.\d{2})
PatternB ==
    << Elem(DigitSet, 1, 2), Elem({"-"}, 1, 1), Elem(DigitSet, 1, 2), Elem({"-"}, 1, 1),
       Elem(DigitSet, 2, 4), Elem(Whitespace, 1, -1), LazyAny, Elem(Whitespace, 1, -1),
       Elem({"-"}, 0, 1), Elem(DigitSet \cup {","}, 1, -1), Elem({"."}, 1, 1),
       Elem(DigitSet, 2, 2) >>

\* The elements of each pattern's groups 1, 2 and 3: <<first, last>>.
patterns ==
    << [pattern |-> PatternA, groups |-> <<<<1, 5>>, <<7, 7>>, <<9, 11>>>>],
       [pattern |-> PatternB, groups |-> <<<<1, 5>>, <<7, 7>>, <<9, 12>>>>] >>

InClass(c, e) == IF e.any THEN c # "\n" ELSE c \in e.chars

\* The length of the longest run of e's class in s from position p.
Run(s, p, e) ==
    CHOOSE n \in 0..(Len(s) - p + 1) :
        /\ \A j \in p..(p + n - 1) : InClass(s[j], e)
        /\ (p + n > Len(s) \/ ~InClass(s[p + n], e))

NoMatch == [ok |-> FALSE, ns |-> <<>>]

\* The most characters element e can take from position p: its longest run,
\* capped by hi.
Top(s, p, e) == IF e.hi < 0 \/ Run(s, p, e) < e.hi THEN Run(s, p, e) ELSE e.hi

\* A match of element k over n characters, before the match rest of the others.
Then(n, rest) == IF rest.ok THEN [ok |-> TRUE, ns |-> <<n>> \o rest.ns] ELSE NoMatch

RECURSIVE MatchFrom(_, _, _, _)
RECURSIVE TryCount(_, _, _, _, _, _)
RECURSIVE Retry(_, _, _, _, _, _, _)
\* Elements k.. of pat matched from position p of s: the length each took.
MatchFrom(pat, s, k, p) ==
    IF k > Len(pat) THEN [ok |-> TRUE, ns |-> <<>>]
    ELSE IF Top(s, p, pat[k]) < pat[k].lo THEN NoMatch
    ELSE TryCount(pat, s, k, p,
                  IF pat[k].greedy THEN Top(s, p, pat[k]) ELSE pat[k].lo,
                  Top(s, p, pat[k]))

\* Element k takes n characters, and the rest is matched after them.
TryCount(pat, s, k, p, n, top) ==
    Retry(pat, s, k, p, n, top, Then(n, MatchFrom(pat, s, k + 1, p + n)))

\* On a failure of the rest, one character fewer (greedy) or one more (lazy).
Retry(pat, s, k, p, n, top, found) ==
    IF found.ok THEN found
    ELSE IF pat[k].greedy
         THEN IF n > pat[k].lo THEN TryCount(pat, s, k, p, n - 1, top) ELSE NoMatch
         ELSE IF n < top THEN TryCount(pat, s, k, p, n + 1, top) ELSE NoMatch

\* A match found at position i.
At(i, m) == [ok |-> m.ok, start |-> i, ns |-> m.ns]

RECURSIVE SearchFrom(_, _, _)
RECURSIVE SearchNext(_, _, _, _)
\* re.search(pattern, line): the match at the leftmost position, from i on.
SearchFrom(pat, s, i) ==
    IF i > Len(s) + 1 THEN [ok |-> FALSE, start |-> 0, ns |-> <<>>]
    ELSE SearchNext(pat, s, i, At(i, MatchFrom(pat, s, 1, i)))

SearchNext(pat, s, i, m) == IF m.ok THEN m ELSE SearchFrom(pat, s, i + 1)

RECURSIVE SumTo(_, _)
SumTo(ns, k) == IF k = 0 THEN 0 ELSE SumTo(ns, k - 1) + ns[k]

\* match.group(g): the characters of the elements span[1]..span[2]
Group(s, m, span) ==
    SubSeq(s, m.start + SumTo(m.ns, span[1] - 1), m.start + SumTo(m.ns, span[2]) - 1)

\* The dict parse_pdf_line returns.
LineTransaction(date, description, amount) ==
    [date |-> date, description |-> description, amount |-> amount,
     category |-> FinancialProcessor_categorize_transaction(description),
     type |-> TypeOf(amount)]

RECURSIVE TryPatterns(_, _)
RECURSIVE FromMatch(_, _, _)
RECURSIVE FromAmount(_, _, _, _)
\* processor.py FinancialProcessor.parse_pdf_line, from pattern k on
TryPatterns(line, k) ==
    IF k > Len(patterns) THEN NoTransaction
    ELSE FromMatch(line, k, SearchFrom(patterns[k].pattern, line, 1))

\* if match: amount = float(match.group(3).replace(',', ''))
FromMatch(line, k, match) ==
    IF match.ok
    THEN FromAmount(line, k, match,
                    PyFloat(Remove(Group(line, match, patterns[k].groups[3]), <<",">>)))
    ELSE TryPatterns(line, k + 1)

\* The try block: the dict, or the next pattern on ValueError.
FromAmount(line, k, match, amount) ==
    IF amount.ok
    THEN LineTransaction(Group(line, match, patterns[k].groups[1]),
                         Strip(Group(line, match, patterns[k].groups[2])),
                         amount.f)
    ELSE TryPatterns(line, k + 1)

parse_pdf_line(line) == TryPatterns(line, 1)

----------------------------------------------------------------------------
(* generate_reports *)

\* breakdown[category] = x: the earlier amounts of the category are lost
AccumulateOverwriting(breakdown, category, x) ==
    (category :> x) @@ breakdown

\* breakdown[category] = breakdown.get(category, 0) + x
Accumulate(breakdown, category, x) ==
    IF category \in DOMAIN breakdown
    THEN [breakdown EXCEPT ![category] = FAdd(@, x)]
    ELSE (category :> FAdd(Num(0), x)) @@ breakdown

EmptyDict == [k \in {} |-> Num(0)]

RECURSIVE IncomeBreakdown(_, _, _)
\* The loop's income_breakdown after transactions i..
IncomeBreakdown(transactions, i, income_breakdown) ==
    IF i > Len(transactions) THEN income_breakdown
    ELSE IF FPositive(transactions[i].amount)
         THEN IncomeBreakdown(transactions, i + 1,
                  Accumulate(income_breakdown, transactions[i].category,
                             transactions[i].amount))
         ELSE IncomeBreakdown(transactions, i + 1, income_breakdown)

RECURSIVE ExpenseBreakdown(_, _, _)
\* The loop's expense_breakdown after transactions i..
ExpenseBreakdown(transactions, i, expense_breakdown) ==
    IF i > Len(transactions) THEN expense_breakdown
    ELSE IF FPositive(transactions[i].amount)
         THEN ExpenseBreakdown(transactions, i + 1, expense_breakdown)
         ELSE ExpenseBreakdown(transactions, i + 1,
                  Accumulate(expense_breakdown, transactions[i].category,
                             FAbs(transactions[i].amount)))

\* A key of the dict.
AnyKey(breakdown) == CHOOSE c \in DOMAIN breakdown : TRUE

\* The dict without key k.
Without(breakdown, k) == [c \in DOMAIN breakdown \ {k} |-> breakdown[c]]

RECURSIVE SumValues(_)
\* sum(breakdown.values())
SumValues(breakdown) ==
    IF DOMAIN breakdown = {} THEN Num(0)
    ELSE FAdd(breakdown[AnyKey(breakdown)],
              SumValues(Without(breakdown, AnyKey(breakdown))))

\* {f"expense_{k}": -v for k, v in expense_breakdown.items()}
ExpenseEntries(expense_breakdown) ==
    [e \in {<<"e","x","p","e","n","s","e","_">> \o k : k \in DOMAIN expense_breakdown} |->
        FNeg(expense_breakdown[CHOOSE k \in DOMAIN expense_breakdown :
                                   <<"e","x","p","e","n","s","e","_">> \o k = e])]

\* {**income_breakdown, **{...}}: the entries on the right win
MergedBreakdown(income_breakdown, expense_breakdown) ==
    ExpenseEntries(expense_breakdown) @@ income_breakdown

\* The three statements from the totals.
Statements(transactions, breakdown, total_income, total_expenses) ==
    [transactions |-> transactions,
     income_statement |->
         [total_income |-> total_income, total_expenses |-> total_expenses,
          net_income |-> FSub(total_income, total_expenses),
          breakdown |-> breakdown],
     balance_sheet |->
         [total_assets |-> FTenths(total_income, 7),
          total_liabilities |-> FTenths(total_expenses, 3),
          total_equity |-> FSub(FTenths(total_income, 7), FTenths(total_expenses, 3))],
     cash_flow |->
         [operating_activities |-> FSub(total_income, total_expenses),
          investing_activities |-> FTenths(total_income, 1),
          financing_activities |-> FTenths(total_expenses, 1),
          net_cash_flow |->
              FAdd(FAdd(FSub(total_income, total_expenses), FTenths(total_income, 1)),
                   FTenths(total_expenses, 1))]]

\* The report of the two breakdowns the loop built.
ReportOf(transactions, income_breakdown, expense_breakdown) ==
    Statements(transactions, MergedBreakdown(income_breakdown, expense_breakdown),
               SumValues(income_breakdown), SumValues(expense_breakdown))

\* app.py generate_reports
generate_reports(transactions) ==
    ReportOf(transactions,
             IncomeBreakdown(transactions, 1, EmptyDict),
             ExpenseBreakdown(transactions, 1, EmptyDict))

\* processor.py FinancialProcessor.generate_reports
FinancialProcessor_generate_reports(transactions) ==
    ReportOf(transactions,
             IncomeBreakdown(transactions, 1, EmptyDict),
             ExpenseBreakdown(transactions, 1, EmptyDict))

----------------------------------------------------------------------------
(* Files.  A file is [filename, content]; the content is what the decoding *)
(* library (pandas, pdfplumber, json) makes of the bytes:                  *)
(*   [fmt |-> "csv" or "excel", rows]: the rows of the table, as dicts     *)
(*   [fmt |-> "pdf", pages]: each page's extract_text(), None or text      *)
(*   [fmt |-> "json", is_list, items]: the decoded document                *)
(*   [fmt |-> "corrupt"]: bytes no reader decodes                          *)
(* A reader handed bytes of another format raises.                         *)

Ok(transactions) == [raised |-> FALSE, transactions |-> transactions]

\* An exception, with str(e)
Raise(error) == [raised |-> TRUE, error |-> error]

\* str(e) of a decoding library's exception
DecodeError == <<"c","a","n","n","o","t"," ","d","e","c","o","d","e"," ","f","i","l","e">>

\* if transaction: transactions.append(transaction)
AppendIf(transactions, transaction) ==
    IF transaction # NoTransaction THEN Append(transactions, transaction) ELSE transactions

ExtractBy(impl, row) ==
    IF impl = "app" THEN extract_transaction(row)
    ELSE FinancialProcessor_extract_transaction(row)

RECURSIVE ExtractRows(_, _, _, _)
\* for row in rows: transaction = extract_transaction(row);
\*                  if transaction: transactions.append(transaction)
ExtractRows(impl, rows, i, transactions) ==
    IF i > Len(rows) THEN transactions
    ELSE ExtractRows(impl, rows, i + 1, AppendIf(transactions, ExtractBy(impl, rows[i])))

\* app.py process_csv
process_csv(file_content) ==
    IF file_content.fmt # "csv" THEN Raise(DecodeError)
    ELSE Ok(ExtractRows("app", file_content.rows, 1, <<>>))

\* app.py process_excel
process_excel(file_content) ==
    IF file_content.fmt # "excel" THEN Raise(DecodeError)
    ELSE Ok(ExtractRows("app", file_content.rows, 1, <<>>))

\* processor.py FinancialProcessor.process_csv
FinancialProcessor_process_csv(file_content) ==
    IF file_content.fmt # "csv" THEN Raise(DecodeError)
    ELSE Ok(ExtractRows("processor", file_content.rows, 1, <<>>))

\* processor.py FinancialProcessor.process_excel
FinancialProcessor_process_excel(file_content) ==
    IF file_content.fmt # "excel" THEN Raise(DecodeError)
    ELSE Ok(ExtractRows("processor", file_content.rows, 1, <<>>))

RECURSIVE ParseLines(_, _, _)
\* for line in lines: transaction = parse_pdf_line(line); if transaction: append
ParseLines(lines, i, transactions) ==
    IF i > Len(lines) THEN transactions
    ELSE ParseLines(lines, i + 1, AppendIf(transactions, parse_pdf_line(lines[i])))

RECURSIVE ParsePages(_, _, _)
\* for page in pdf.pages: text = page.extract_text(); if text: the lines of text
ParsePages(pages, i, transactions) ==
    IF i > Len(pages) THEN transactions
    ELSE IF pages[i] # None /\ pages[i].s # <<>>
         THEN ParsePages(pages, i + 1,
                         ParseLines(Split(pages[i].s, "\n"), 1, transactions))
         ELSE ParsePages(pages, i + 1, transactions)

\* processor.py FinancialProcessor.process_pdf
FinancialProcessor_process_pdf(file_content) ==
    IF file_content.fmt # "pdf" THEN Raise(DecodeError)
    ELSE Ok(ParsePages(file_content.pages, 1, <<>>))

\* processor.py FinancialProcessor.process_json
FinancialProcessor_process_json(file_content) ==
    IF file_content.fmt # "json" THEN Raise(DecodeError)
    ELSE IF file_content.is_list
         THEN Ok(ExtractRows("processor", file_content.items, 1, <<>>))
         ELSE Ok(<<>>)

\* processor.py FinancialProcessor.process_file_in_memory
process_file_in_memory(file_content, filename) ==
    IF EndsWith(Lower(filename), <<".","c","s","v">>)
    THEN FinancialProcessor_process_csv(file_content)
    ELSE IF EndsWith(Lower(filename), <<".","x","l","s","x">>) \/ EndsWith(Lower(filename), <<".","x","l","s">>)
    THEN FinancialProcessor_process_excel(file_content)
    ELSE IF EndsWith(Lower(filename), <<".","p","d","f">>)
    THEN FinancialProcessor_process_pdf(file_content)
    ELSE IF EndsWith(Lower(filename), <<".","j","s","o","n">>)
    THEN FinancialProcessor_process_json(file_content)
    ELSE Raise(<<"U","n","s","u","p","p","o","r","t","e","d"," ","f","i","l","e"," ","f","o","r","m","a","t",":"," ">> \o filename)

----------------------------------------------------------------------------
(* The inputs *)

RowSalary ==
    << <<<<"D","a","t","e">>, TextV(<<"0","1","/","0","1","/","2","0","2","4">>)>>,
       <<<<"D","e","s","c","r","i","p","t","i","o","n">>, TextV(<<"S","a","l","a","r","y">>)>>,
       <<<<"C","r","e","d","i","t">>, TextV(<<"5","0","0","0","0">>)>> >>

RowRent ==
    << <<<<"D","a","t","e">>, TextV(<<"0","2","/","0","1","/","2","0","2","4">>)>>,
       <<<<"D","e","s","c","r","i","p","t","i","o","n">>, TextV(<<"R","e","n","t"," ","p","a","y","m","e","n","t">>)>>,
       <<<<"D","e","b","i","t">>, TextV(<<"1","5","0","0","0">>)>> >>

RowElectricity ==
    << <<<<"D","e","b","i","t">>, TextV(<<"1","0","0",".","0","0">>)>>,
       <<<<"N","a","r","r","a","t","i","o","n">>, TextV(<<"E","l","e","c","t","r","i","c","i","t","y"," ","B","i","l","l">>)>> >>

RowZero == << <<<<"A","m","o","u","n","t">>, IntV(0)>> >>

\* A null amount before the credit.
RowNullSkip ==
    << <<<<"A","m","o","u","n","t">>, None>>,
       <<<<"C","r","e","d","i","t">>, TextV(<<"1",",","2","3","4",".","5","0">>)>>,
       <<<<"N","a","r","r","a","t","i","o","n">>, TextV(<<"M","o","n","t","h","l","y"," ","S","a","l","a","r","y"," ","P","a","y","m","e","n","t">>)>> >>

RowRupee ==
    << <<<<"N","a","r","r","a","t","i","o","n">>, TextV(<<"R","a","n","d","o","m"," ","t","e","x","t"," ","x","y","z">>)>>,
       <<<<"A","m","o","u","n","t">>, TextV(<<"RUPEE","5","0","0">>)>> >>

\* A credit column before a generic amount column.
RowOrder ==
    << <<<<"D","e","p","o","s","i","t">>, TextV(<<"3","0">>)>>,
       <<<<"A","m","o","u","n","t">>, TextV(<<"-","5">>)>>,
       <<<<"P","a","r","t","i","c","u","l","a","r","s">>, TextV(<<"G","r","o","c","e","r","y">>)>> >>

RowNoAmount ==
    << <<<<"D","a","t","e">>, TextV(<<"0","3","/","0","1","/","2","0","2","4">>)>>,
       <<<<"P","a","r","t","i","c","u","l","a","r","s">>, TextV(<<"R","e","f","u","n","d">>)>> >>

\* A table row whose debit cell is empty: pandas reads the cell as nan.
RowNaN ==
    << <<<<"N","a","r","r","a","t","i","o","n">>, TextV(<<"D","i","v","i","d","e","n","d">>)>>,
       <<<<"D","e","b","i","t">>, FloatV(NaN)>>,
       <<<<"C","r","e","d","i","t">>, IntV(75)>> >>

RowEmptyKey ==
    << <<<<>>, TextV(<<"9">>)>>,
       <<<<"A","m","t">>, FloatV(Num(12500))>>,
       <<<<"D","e","t","a","i","l","s">>, TextV(<<"N","e","t","f","l","i","x">>)>> >>

\* An empty string is not None: the amount column is not skipped.
RowEmptyText ==
    << <<<<"A","m","o","u","n","t">>, TextV(<<>>)>>,
       <<<<"C","r","e","d","i","t">>, TextV(<<"5">>)>> >>

RowWithdrawal ==
    << <<<<"T","x","n"," ","D","a","t","e">>, None>>,
       <<<<"W","I","T","H","D","R","A","W","A","L">>, IntV(20)>>,
       <<<<"D","e","p","o","s","i","t">>, IntV(0)>> >>

Rows ==
    { RowSalary, RowRent, RowElectricity, RowZero, RowNullSkip, RowRupee, RowOrder,
      RowNoAmount, RowNaN, RowEmptyKey, RowEmptyText, RowWithdrawal }

Values ==
    { None, IntV(0), IntV(500), FloatV(Num(12500)), FloatV(NaN), TextV(<<>>),
      TextV(<<"1",",","2","3","4",".","5","0">>), TextV(<<"RUPEE","5","0","0">>), TextV(<<"$","1",",","0","0","0">>), TextV(<<"EURO","7","5">>),
      TextV(<<" ","4","2"," ">>), TextV(<<"a","b","c">>), TextV(<<"-","5">>), TextV(<<"1","0","0",".","0","0">>),
      TextV(<<"5","0","0","0","0">>), TextV(<<"1",".","2",".","3">>), TextV(<<",">>), TextV(<<"A_CIRC","LOW9","SUP1","9">>),
      TextV(<<"S","a","l","a","r","y">>) }

Descriptions ==
    { <<"M","o","n","t","h","l","y"," ","S","a","l","a","r","y"," ","P","a","y","m","e","n","t">>, <<"R","a","n","d","o","m"," ","t","e","x","t"," ","x","y","z">>, <<"E","l","e","c","t","r","i","c","i","t","y"," ","B","i","l","l">>,
      <<"R","e","n","t"," ","p","a","y","m","e","n","t">>, <<"S","a","l","a","r","y">>, <<"I","n","t","e","r","e","s","t"," ","o","n"," ","r","e","n","t">>, <<"C","u","r","r","e","n","t"," ","a","c","c","o","u","n","t">>,
      <<"W","a","t","e","r"," ","b","i","l","l"," ","f","o","r"," ","h","o","u","s","e">>, <<"G","R","O","C","E","R","Y"," ","r","e","f","u","n","d">>, <<"U","b","e","r">>, <<>>,
      <<"U","n","k","n","o","w","n"," ","T","r","a","n","s","a","c","t","i","o","n">> }

LineSlash == <<"1","/","1","/","2","4"," ","S","a","l","a","r","y"," ","5","0","0",".","0","0"," ","9","0","0",".","0","0">>

LineDash == <<"1","-","2","-","2","4"," ","R","e","n","t"," ","-","1",",","5","0","0",".","0","0">>

LineZero == <<"0","1","-","0","1","-","2","0","2","4"," ","O","p","e","n","i","n","g"," ","b","a","l","a","n","c","e"," ","0",".","0","0">>

LineHeading == <<"S","t","a","t","e","m","e","n","t"," ","o","f"," ","a","c","c","o","u","n","t">>

LineNoBalance == <<"3","/","1","/","2","4"," ","F","u","e","l"," ","2","0",".","0","0">>

Lines == { LineSlash, LineDash, LineZero, LineHeading, LineNoBalance }

FileCsv ==
    [filename |-> <<"a",".","c","s","v">>,
     content |-> [fmt |-> "csv", rows |-> <<RowElectricity, RowZero, RowNullSkip, RowOrder>>]]

FileXlsxUpper ==
    [filename |-> <<"B",".","X","L","S","X">>,
     content |-> [fmt |-> "excel", rows |-> <<RowSalary, RowRent, RowNaN>>]]

FileXls ==
    [filename |-> <<"c",".","x","l","s">>,
     content |-> [fmt |-> "excel", rows |-> <<RowEmptyKey>>]]

FileJson ==
    [filename |-> <<"d",".","j","s","o","n">>,
     content |-> [fmt |-> "json", is_list |-> TRUE, items |-> <<RowWithdrawal, RowRupee>>]]

FileJsonDict ==
    [filename |-> <<"i",".","J","s","o","n">>,
     content |-> [fmt |-> "json", is_list |-> FALSE, items |-> <<>>]]

FilePdf ==
    [filename |-> <<"e",".","p","d","f">>,
     content |-> [fmt |-> "pdf",
                  pages |-> << TextV(LineHeading \o <<"\n">> \o LineSlash \o <<"\n">> \o LineZero),
                               None,
                               TextV(LineDash \o <<"\n">> \o LineNoBalance) >>]]

FileTxt ==
    [filename |-> <<"f",".","t","x","t">>,
     content |-> [fmt |-> "csv", rows |-> <<RowElectricity>>]]

FileNoName ==
    [filename |-> <<>>,
     content |-> [fmt |-> "csv", rows |-> <<RowElectricity>>]]

FileCorrupt == [filename |-> <<"g",".","c","s","v">>, content |-> [fmt |-> "corrupt"]]

\* A table none of whose rows is a transaction.
FileCsvEmpty ==
    [filename |-> <<"h",".","c","s","v">>,
     content |-> [fmt |-> "csv", rows |-> <<RowZero, RowNoAmount>>]]

\* The rows of the end-to-end example.
FileEndToEnd ==
    [filename |-> <<"j",".","c","s","v">>,
     content |-> [fmt |-> "csv", rows |-> <<RowSalary, RowRent>>]]

Files ==
    { FileCsv, FileXlsxUpper, FileXls, FileJson, FileJsonDict, FilePdf, FileTxt,
      FileNoName, FileCorrupt, FileCsvEmpty, FileEndToEnd }

\* The batches of at most MaxFiles files.
Batches == UNION {[1..n -> Files] : n \in 0..MaxFiles}

\* Transactions the extraction produces, for generate_reports.
Transactions ==
    { extract_transaction(RowElectricity), extract_transaction(RowNullSkip),
      extract_transaction(RowOrder), extract_transaction(RowNaN),
      parse_pdf_line(LineZero) }

\* The transaction lists of at most MaxTx transactions.
TransactionLists == UNION {[1..n -> Transactions] : n \in 0..MaxTx}

----------------------------------------------------------------------------
(* The state machine.  op, arg and ret are the call and its result; files,  *)
(* idx, all_transactions and processed_files_status are the locals of      *)
(* process_files, and pc is "loop" while it runs.  Neither module keeps    *)
(* state between two calls (the chart is never written, and the lists of   *)
(* process_files are its locals), so a behaviour is one call.              *)

\* Python's "Unsupported file format"
UnsupportedFileFormat == <<"U","n","s","u","p","p","o","r","t","e","d"," ","f","i","l","e"," ","f","o","r","m","a","t">>

SuccessStatus(filename, transactions) ==
    [filename |-> filename, transactions_count |-> Len(transactions), status |-> "success"]

ErrorStatus(filename, error) ==
    [filename |-> filename, status |-> "error", error |-> error]

Init ==
    /\ op = "none"
    /\ arg = None
    /\ ret = None
    /\ pc = "idle"
    /\ files = <<>>
    /\ idx = 0
    /\ all_transactions = <<>>
    /\ processed_files_status = <<>>

\* Nothing has been called yet.
Idle == pc = "idle"

\* A call that is one step: its input and its result.
Call(name, input, output) ==
    /\ op' = name
    /\ arg' = input
    /\ ret' = output
    /\ pc' = "done"
    /\ UNCHANGED <<files, idx, all_transactions, processed_files_status>>

Call_parse_amount ==
    /\ Idle
    /\ \E value \in Values : Call("parse_amount", value, parse_amount(value))

Call_FinancialProcessor_parse_amount ==
    /\ Idle
    /\ \E value \in Values :
           Call("FinancialProcessor.parse_amount", value,
                FinancialProcessor_parse_amount(value))

Call_categorize_transaction ==
    /\ Idle
    /\ \E description \in Descriptions :
           Call("categorize_transaction", description, categorize_transaction(description))

Call_FinancialProcessor_categorize_transaction ==
    /\ Idle
    /\ \E description \in Descriptions :
           Call("FinancialProcessor.categorize_transaction", description,
                FinancialProcessor_categorize_transaction(description))

Call_extract_transaction ==
    /\ Idle
    /\ \E row \in Rows : Call("extract_transaction", row, extract_transaction(row))

Call_FinancialProcessor_extract_transaction ==
    /\ Idle
    /\ \E row \in Rows :
           Call("FinancialProcessor.extract_transaction", row,
                FinancialProcessor_extract_transaction(row))

Call_parse_pdf_line ==
    /\ Idle
    /\ \E line \in Lines : Call("parse_pdf_line", line, parse_pdf_line(line))

\* generate_reports of a list, and of the two parts of it split after k.
Call_generate_reports ==
    /\ Idle
    /\ \E transactions \in TransactionLists : \E k \in 0..Len(transactions) :
           Call("generate_reports", [transactions |-> transactions, k |-> k],
                [whole |-> generate_reports(transactions),
                 left  |-> generate_reports(SubSeq(transactions, 1, k)),
                 right |-> generate_reports(SubSeq(transactions, k + 1, Len(transactions)))])

Call_FinancialProcessor_generate_reports ==
    /\ Idle
    /\ \E transactions \in TransactionLists : \E k \in 0..Len(transactions) :
           Call("FinancialProcessor.generate_reports",
                [transactions |-> transactions, k |-> k],
                [whole |-> FinancialProcessor_generate_reports(transactions),
                 left  |-> FinancialProcessor_generate_reports(SubSeq(transactions, 1, k)),
                 right |-> FinancialProcessor_generate_reports(
                               SubSeq(transactions, k + 1, Len(transactions)))])

Call_process_file_in_memory ==
    /\ Idle
    /\ \E file \in Files :
           Call("process_file_in_memory", file,
                process_file_in_memory(file.content, file.filename))

\* app.py 19-21: the handler registered first for POST /process.  It calls
\* processor.process_files, which FinancialProcessor does not define.
process_files_first ==
    /\ Idle
    /\ \E batch \in Batches :
           Call("process_files_first", batch,
                [raised |-> TRUE, exception |-> "AttributeError"])

\* app.py 167-171: process_files is entered.
process_files ==
    /\ Idle
    /\ \E batch \in Batches :
           /\ op' = "process_files"
           /\ arg' = batch
           /\ ret' = None
           /\ pc' = "loop"
           /\ files' = batch
           /\ idx' = 1
           /\ all_transactions' = <<>>
           /\ processed_files_status' = <<>>

InLoop == pc = "loop" /\ idx <= Len(files)

IsCsv(filename) == EndsWith(Lower(filename), <<".","c","s","v">>)

IsExcel(filename) ==
    EndsWith(Lower(filename), <<".","x","l","s","x">>) \/ EndsWith(Lower(filename), <<".","x","l","s">>)

\* all_transactions.extend(transactions), with the new ones put in front
ExtendInFront(all, transactions) == transactions \o all

\* all_transactions.extend(transactions)
Extend(all, transactions) == all \o transactions

\* The try block's outcome for a file whose reader returned or raised result.
AfterRead(file, result) ==
    IF result.raised
    THEN /\ all_transactions' = all_transactions
         /\ processed_files_status' =
                Append(processed_files_status, ErrorStatus(file.filename, result.error))
    ELSE /\ all_transactions' = Extend(all_transactions, result.transactions)
         /\ processed_files_status' =
                Append(processed_files_status,
                       SuccessStatus(file.filename, result.transactions))

\* if not file.filename: continue
SkipUnnamedFile ==
    /\ InLoop
    /\ files[idx].filename = <<>>
    /\ idx' = idx + 1
    /\ UNCHANGED <<op, arg, ret, pc, files, all_transactions, processed_files_status>>

ProcessCsvFile ==
    /\ InLoop
    /\ files[idx].filename # <<>>
    /\ IsCsv(files[idx].filename)
    /\ AfterRead(files[idx], process_csv(files[idx].content))
    /\ idx' = idx + 1
    /\ UNCHANGED <<op, arg, ret, pc, files>>

ProcessExcelFile ==
    /\ InLoop
    /\ files[idx].filename # <<>>
    /\ ~IsCsv(files[idx].filename)
    /\ IsExcel(files[idx].filename)
    /\ AfterRead(files[idx], process_excel(files[idx].content))
    /\ idx' = idx + 1
    /\ UNCHANGED <<op, arg, ret, pc, files>>

RejectUnsupportedFile ==
    /\ InLoop
    /\ files[idx].filename # <<>>
    /\ ~IsCsv(files[idx].filename)
    /\ ~IsExcel(files[idx].filename)
    /\ processed_files_status' =
           Append(processed_files_status,
                  ErrorStatus(files[idx].filename, UnsupportedFileFormat))
    /\ idx' = idx + 1
    /\ UNCHANGED <<op, arg, ret, pc, files, all_transactions>>

\* A batch with a failed file fails.
AnyFileFailed ==
    all_transactions = <<>>
    \/ \E i \in 1..Len(processed_files_status) : processed_files_status[i].status = "error"

\* if not all_transactions
NoTransactionsFound == all_transactions = <<>>

LoopDone == pc = "loop" /\ idx > Len(files)

\* raise HTTPException(status_code=400, ...)
RaiseNoTransactions ==
    /\ LoopDone
    /\ NoTransactionsFound
    /\ ret' = [raised |-> TRUE, exception |-> "HTTPException", status_code |-> 400,
               detail |-> <<"N","o"," ","v","a","l","i","d"," ","t","r","a","n","s","a","c","t","i","o","n","s"," ","f","o","u","n","d"," ","i","n"," ","a","n","y"," ","f","i","l","e">>]
    /\ pc' = "done"
    /\ UNCHANGED <<op, arg, files, idx, all_transactions, processed_files_status>>

\* The response of a batch with transactions.
Response(reports) ==
    [raised |-> FALSE,
     status |-> "success",
     processed_files |-> processed_files_status,
     summary |->
         [total_transactions |-> Len(all_transactions),
          total_income |-> reports.income_statement.total_income,
          total_expenses |-> reports.income_statement.total_expenses,
          net_income |-> reports.income_statement.net_income],
     reports |-> reports]

ReturnReports ==
    /\ LoopDone
    /\ ~NoTransactionsFound
    /\ ret' = Response(generate_reports(all_transactions))
    /\ pc' = "done"
    /\ UNCHANGED <<op, arg, files, idx, all_transactions, processed_files_status>>

Next ==
    \/ Call_parse_amount
    \/ Call_FinancialProcessor_parse_amount
    \/ Call_categorize_transaction
    \/ Call_FinancialProcessor_categorize_transaction
    \/ Call_extract_transaction
    \/ Call_FinancialProcessor_extract_transaction
    \/ Call_parse_pdf_line
    \/ Call_generate_reports
    \/ Call_FinancialProcessor_generate_reports
    \/ Call_process_file_in_memory
    \/ process_files_first
    \/ process_files
    \/ SkipUnnamedFile
    \/ ProcessCsvFile
    \/ ProcessExcelFile
    \/ RejectUnsupportedFile
    \/ RaiseNoTransactions
    \/ ReturnReports

Spec == Init /\ [][Next]_vars

----------------------------------------------------------------------------
(* Properties.  A state after a call holds the call (op, arg) and its      *)
(* result (ret); a state of process_files holds its locals as well.        *)

Extractors == {"extract_transaction", "FinancialProcessor.extract_transaction"}

Parsers == {"parse_amount", "FinancialProcessor.parse_amount"}

Categorizers == {"categorize_transaction", "FinancialProcessor.categorize_transaction"}

Aggregators == {"generate_reports", "FinancialProcessor.generate_reports"}

\* The implementation a call belongs to.
ImplOf(name) ==
    IF name \in {"parse_amount", "categorize_transaction", "extract_transaction",
                 "generate_reports", "process_files"}
    THEN "app" ELSE "processor"

IsTransaction(t) == t # NoTransaction

\* The transactions of the rows of a table: each row's, in row order, the
\* rejected rows left out.
KeptRows(impl, rows) ==
    SelectSeq([i \in 1..Len(rows) |-> ExtractBy(impl, rows[i])], IsTransaction)

\* A file the multi-file variant reads: it has a name, a tabular extension,
\* and bytes the reader of that extension decodes.
Readable(file) ==
    /\ file.filename # <<>>
    /\ \/ IsCsv(file.filename) /\ file.content.fmt = "csv"
       \/ ~IsCsv(file.filename) /\ IsExcel(file.filename) /\ file.content.fmt = "excel"

\* The transactions a file of a batch yields.
FileTransactions(file) ==
    IF Readable(file) THEN KeptRows("app", file.content.rows) ELSE <<>>

RECURSIVE InSubmissionOrder(_, _)
\* The transactions of the first n files of a batch, file after file.
InSubmissionOrder(batch, n) ==
    IF n = 0 THEN <<>>
    ELSE InSubmissionOrder(batch, n - 1) \o FileTransactions(batch[n])

\* C1: the end-to-end example.  The row {Date, Description: "Salary", Credit:
\* "50000"} yields a transaction of +50000 in income_salary, the row {Date,
\* Description: "Rent payment", Debit: "15000"} one of -15000 in
\* expenses_housing, and a file of the two rows aggregates to total_income
\* 50000, total_expenses 15000, net_income 35000.
C1_EndToEndExample ==
    /\ (op \in Extractors /\ arg = RowSalary) =>
           /\ ret # NoTransaction
           /\ ret.amount = Num(Units(50000))
           /\ ret.category = <<"i","n","c","o","m","e","_","s","a","l","a","r","y">>
    /\ (op \in Extractors /\ arg = RowRent) =>
           /\ ret # NoTransaction
           /\ ret.amount = Num(Units(-15000))
           /\ ret.category = <<"e","x","p","e","n","s","e","s","_","h","o","u","s","i","n","g">>
    /\ (op = "process_files" /\ pc = "done" /\ arg = <<FileEndToEnd>>) =>
           /\ ~ret.raised
           /\ ret.summary.total_income = Num(Units(50000))
           /\ ret.summary.total_expenses = Num(Units(15000))
           /\ ret.summary.net_income = Num(Units(35000))

\* C2: every transaction an extraction path produces has a nonzero amount:
\* those extract_transaction and parse_pdf_line return, those of a processed
\* file, and those process_files collects.
C2_NonzeroAmounts ==
    /\ (op \in Extractors \cup {"parse_pdf_line"} /\ ret # NoTransaction) =>
           ~FIsZero(ret.amount)
    /\ (op = "process_file_in_memory" /\ ~ret.raised) =>
           \A i \in 1..Len(ret.transactions) : ~FIsZero(ret.transactions[i].amount)
    /\ \A i \in 1..Len(all_transactions) : ~FIsZero(all_transactions[i].amount)

\* The three classes of a field name, each after the one before it.
GenericName(name) == ContainsAny(Lower(name), <<<<"a","m","o","u","n","t">>, <<"a","m","t">>, <<"v","a","l","u","e">>>>)

DebitName(name) ==
    ~GenericName(name) /\ ContainsAny(Lower(name), <<<<"d","e","b","i","t">>, <<"w","i","t","h","d","r","a","w","a","l">>, <<"d","r">>>>)

CreditName(name) ==
    /\ ~GenericName(name)
    /\ ~DebitName(name)
    /\ ContainsAny(Lower(name), <<<<"c","r","e","d","i","t">>, <<"d","e","p","o","s","i","t">>, <<"c","r">>>>)

\* The fields that can resolve the amount: a value that is not None under a
\* name of one of the three classes.
Resolving(row) ==
    {i \in 1..Len(row) :
        /\ row[i][2] # None
        /\ GenericName(row[i][1]) \/ DebitName(row[i][1]) \/ CreditName(row[i][1])}

\* The first of them.
FirstResolving(row) == CHOOSE i \in Resolving(row) : \A j \in Resolving(row) : i <= j

\* The amount a field resolves to, from its parsed value.
ResolvedBy(name, parsed) ==
    IF GenericName(name) THEN parsed
    ELSE IF DebitName(name) THEN FNeg(FAbs(parsed))
    ELSE FAbs(parsed)

ResolvedAmount(impl, field) == ResolvedBy(field[1], ParseAmountOf(impl, field[2]))

\* The result for a row whose first resolving field gives amount.
ResultHasAmount(result, amount) ==
    IF FIsZero(amount) THEN result = NoTransaction
    ELSE /\ result # NoTransaction
         /\ result.amount = amount
         /\ result.type = (IF FPositive(amount) THEN "income" ELSE "expense")

\* C3: the amount of extract_transaction is that of the first field, in the
\* row's order, whose value is not None and whose lowercased name holds a
\* generic term (the parsed value as it is), else a debit term (minus its
\* absolute value), else a credit term (its absolute value); the row is
\* rejected exactly when it has no such field or that amount is 0.  {Debit:
\* "100.00", Narration: "Electricity Bill"} yields -100.0, expense,
\* expenses_utilities.
C3_FirstMatchingField ==
    /\ (op \in Extractors /\ Resolving(arg) = {}) => ret = NoTransaction
    /\ (op \in Extractors /\ Resolving(arg) # {}) =>
           ResultHasAmount(ret, ResolvedAmount(ImplOf(op), arg[FirstResolving(arg)]))
    /\ (op \in Extractors /\ arg = RowElectricity) =>
           /\ ret # NoTransaction
           /\ ret.amount = Num(-100000)
           /\ ret.type = "expense"
           /\ ret.category = <<"e","x","p","e","n","s","e","s","_","u","t","i","l","i","t","i","e","s">>

\* A row with a deposit before a generic amount: the deposit decides.
C3_Witness ==
    /\ op \in Extractors
    /\ arg = RowOrder
    /\ ret # NoTransaction
    /\ ret.amount = Num(Units(30))

\* C4: both parse_amount strip the currency symbols, the commas and the
\* surrounding whitespace of a text and return its number: "1,234.50" is
\* 1234.50, the rupee sign before 500 gives 500.0, the euro sign before 75
\* gives 75.0; None and the empty string give 0.
C4_ParseStripsCurrency ==
    /\ (op \in Parsers /\ arg = None) => ret = Num(0)
    /\ (op \in Parsers /\ arg = TextV(<<>>)) => ret = Num(0)
    /\ (op \in Parsers /\ arg = TextV(<<"1",",","2","3","4",".","5","0">>)) => ret = Num(1234500)
    /\ (op \in Parsers /\ arg = TextV(<<"$","1",",","0","0","0">>)) => ret = Num(Units(1000))
    /\ (op \in Parsers /\ arg = TextV(<<"RUPEE","5","0","0">>)) => ret = Num(Units(500))
    /\ (op \in Parsers /\ arg = TextV(<<"EURO","7","5">>)) => ret = Num(Units(75))

RECURSIVE SuccessCounts(_, _)
\* The sum of the transaction counts of the first n status entries.
SuccessCounts(statuses, n) ==
    IF n = 0 THEN 0
    ELSE SuccessCounts(statuses, n - 1)
         + (IF statuses[n].status = "success" THEN statuses[n].transactions_count ELSE 0)

\* C5: a batch sent to POST /process, by either handler registered for it,
\* does not raise when one of its files yields a transaction, and its status
\* list has one entry for every submitted file, in order, the success counts
\* adding up to total_transactions.
C5_PerFileIsolation ==
    (op \in {"process_files_first", "process_files"} /\ pc = "done") =>
        /\ (\E i \in 1..Len(arg) : FileTransactions(arg[i]) # <<>>) => ~ret.raised
        /\ ~ret.raised =>
               /\ Len(ret.processed_files) = Len(arg)
               /\ \A i \in 1..Len(ret.processed_files) :
                      i <= Len(arg) => ret.processed_files[i].filename = arg[i].filename
               /\ ret.summary.total_transactions
                      = SuccessCounts(ret.processed_files, Len(ret.processed_files))

HasExtension(filename, extensions) ==
    \E k \in 1..Len(extensions) : EndsWith(Lower(filename), extensions[k])

\* C6: both variants dispatch on the lowercased extension: the single-file
\* process rejects as unsupported exactly the names outside .csv, .xlsx, .xls,
\* .pdf and .json, and the multi-file variant reports no .pdf and no .json
\* file as an unsupported format.
C6_DispatchByExtension ==
    /\ (op = "process_file_in_memory") =>
           ((ret.raised /\ ret.error = <<"U","n","s","u","p","p","o","r","t","e","d"," ","f","i","l","e"," ","f","o","r","m","a","t",":"," ">> \o arg.filename)
            <=> ~HasExtension(arg.filename, <<<<".","c","s","v">>, <<".","x","l","s","x">>, <<".","x","l","s">>, <<".","p","d","f">>, <<".","j","s","o","n">>>>))
    /\ (op = "process_files") =>
           \A i \in 1..Len(processed_files_status) :
               HasExtension(processed_files_status[i].filename, <<<<".","p","d","f">>, <<".","j","s","o","n">>>>) =>
                   ~(/\ processed_files_status[i].status = "error"
                     /\ processed_files_status[i].error = UnsupportedFileFormat)

\* The (main, sub) pairs of a chart.
Pairs(chart) ==
    {p \in (1..Len(chart)) \X (1..11) : p[2] <= Len(chart[p[1]].sub_cats)}

\* Pair p comes before pair q in declaration order.
DeclaredBefore(p, q) == p[1] < q[1] \/ (p[1] = q[1] /\ p[2] < q[2])

\* A keyword of pair p is a substring of the lowercased description.
Hit(chart, p, description) ==
    \E k \in 1..Len(chart[p[1]].sub_cats[p[2]].keywords) :
        Contains(Lower(description), chart[p[1]].sub_cats[p[2]].keywords[k])

Label(chart, p) == chart[p[1]].main \o <<"_">> \o chart[p[1]].sub_cats[p[2]].sub

\* The declared order: income before expenses, and the sub-categories in the
\* order of the taxonomy.
Taxonomy ==
    << <<<<"i","n","c","o","m","e">>, <<<<"s","a","l","a","r","y">>, <<"b","u","s","i","n","e","s","s">>, <<"i","n","v","e","s","t","m","e","n","t">>, <<"o","t","h","e","r","_","i","n","c","o","m","e">>>>>>,
       <<<<"e","x","p","e","n","s","e","s">>,
         <<<<"h","o","u","s","i","n","g">>, <<"u","t","i","l","i","t","i","e","s">>, <<"f","o","o","d">>, <<"t","r","a","n","s","p","o","r","t">>, <<"h","e","a","l","t","h","c","a","r","e">>, <<"e","n","t","e","r","t","a","i","n","m","e","n","t">>, <<"s","h","o","p","p","i","n","g">>>>>> >>

DeclaredAsTaxonomy(chart) ==
    /\ Len(chart) = Len(Taxonomy)
    /\ \A m \in 1..Len(chart) :
           /\ chart[m].main = Taxonomy[m][1]
           /\ Len(chart[m].sub_cats) = Len(Taxonomy[m][2])
           /\ \A s \in 1..Len(chart[m].sub_cats) :
                  chart[m].sub_cats[s].sub = Taxonomy[m][2][s]

\* result is the label of the first pair that hits, "uncategorized" when none does
FirstHit(chart, description, result) ==
    IF \E p \in Pairs(chart) : Hit(chart, p, description)
    THEN \E p \in Pairs(chart) :
             /\ Hit(chart, p, description)
             /\ \A q \in Pairs(chart) : Hit(chart, q, description) => ~DeclaredBefore(q, p)
             /\ result = Label(chart, p)
    ELSE result = <<"u","n","c","a","t","e","g","o","r","i","z","e","d">>

\* C7: both categorize_transaction return the label of the first (main, sub)
\* pair in declaration order, income before expenses, one of whose keywords
\* is a substring of the lowercased description, and "uncategorized" exactly
\* when no keyword is; "Monthly Salary Payment" is income_salary and "Random
\* text xyz" is uncategorized.
C7_FirstMatchInDeclarationOrder ==
    /\ DeclaredAsTaxonomy(CHART_OF_ACCOUNTS)
    /\ DeclaredAsTaxonomy(chart_of_accounts)
    /\ (op = "categorize_transaction") => FirstHit(CHART_OF_ACCOUNTS, arg, ret)
    /\ (op = "FinancialProcessor.categorize_transaction") =>
           FirstHit(chart_of_accounts, arg, ret)
    /\ (op \in Categorizers /\ arg = <<"M","o","n","t","h","l","y"," ","S","a","l","a","r","y"," ","P","a","y","m","e","n","t">>) =>
           ret = <<"i","n","c","o","m","e","_","s","a","l","a","r","y">>
    /\ (op \in Categorizers /\ arg = <<"R","a","n","d","o","m"," ","t","e","x","t"," ","x","y","z">>) =>
           ret = <<"u","n","c","a","t","e","g","o","r","i","z","e","d">>

\* A description with a keyword of income (interest) and one of expenses (rent).
C7_Witness ==
    /\ op \in Categorizers
    /\ arg = <<"I","n","t","e","r","e","s","t"," ","o","n"," ","r","e","n","t">>
    /\ ret = <<"i","n","c","o","m","e","_","i","n","v","e","s","t","m","e","n","t">>

\* C8: process_files raises its one error, HTTP 400, if and only if no file of
\* the batch yields a transaction; a batch one of whose files yields one
\* returns the reports, whatever the other files did.
C8_FailsIffNoTransactions ==
    (op = "process_files" /\ pc = "done") =>
        /\ ret.raised <=> (\A i \in 1..Len(arg) : FileTransactions(arg[i]) = <<>>)
        /\ ret.raised => (ret.exception = "HTTPException" /\ ret.status_code = 400)
        /\ ~ret.raised => (ret.status = "success" /\ ret.reports.transactions # <<>>)

\* A batch with a file in error returned its reports.
C8_Witness ==
    /\ op = "process_files"
    /\ pc = "done"
    /\ ~ret.raised
    /\ \E i \in 1..Len(ret.processed_files) : ret.processed_files[i].status = "error"

\* The ten totals of a report.
Totals(report) ==
    << report.income_statement.total_income, report.income_statement.total_expenses,
       report.income_statement.net_income, report.balance_sheet.total_assets,
       report.balance_sheet.total_liabilities, report.balance_sheet.total_equity,
       report.cash_flow.operating_activities, report.cash_flow.investing_activities,
       report.cash_flow.financing_activities, report.cash_flow.net_cash_flow >>

\* Every amount is a number.
Numbers(transactions) ==
    \A i \in 1..Len(transactions) : ~transactions[i].amount.nan

RECURSIVE SumPositive(_, _)
\* The sum of the positive amounts of the first n transactions.
SumPositive(transactions, n) ==
    IF n = 0 THEN Num(0)
    ELSE IF transactions[n].amount.v > 0
         THEN FAdd(SumPositive(transactions, n - 1), transactions[n].amount)
         ELSE SumPositive(transactions, n - 1)

RECURSIVE SumNonPositive(_, _)
\* The sum of the absolute values of the other amounts.
SumNonPositive(transactions, n) ==
    IF n = 0 THEN Num(0)
    ELSE IF transactions[n].amount.v > 0
         THEN SumNonPositive(transactions, n - 1)
         ELSE FAdd(SumNonPositive(transactions, n - 1), Num(-transactions[n].amount.v))

RECURSIVE AllLines(_, _)
\* The lines of the first n pages of a document, page after page.
AllLines(pages, n) ==
    IF n = 0 THEN <<>>
    ELSE IF pages[n] # None /\ pages[n].s # <<>>
         THEN AllLines(pages, n - 1) \o Split(pages[n].s, "\n")
         ELSE AllLines(pages, n - 1)

\* The transactions of lines, in line order, the rejected lines left out.
KeptLines(lines) ==
    SelectSeq([i \in 1..Len(lines) |-> parse_pdf_line(lines[i])], IsTransaction)

\* C10: the transactions of process_files are those of its successfully read
\* files in submission order, each file's in row order with only the rejected
\* rows left out, while it runs and in the reports it returns; each reader of
\* FinancialProcessor returns its file's in row, line or item order.
C10_InputOrderPreserved ==
    /\ (op = "process_files" /\ pc = "loop") =>
           all_transactions = InSubmissionOrder(files, idx - 1)
    /\ (op = "process_files" /\ pc = "done" /\ ~ret.raised) =>
           ret.reports.transactions = InSubmissionOrder(arg, Len(arg))
    /\ (op = "process_file_in_memory" /\ ~ret.raised
            /\ arg.content.fmt \in {"csv", "excel"}) =>
           ret.transactions = KeptRows("processor", arg.content.rows)
    /\ (op = "process_file_in_memory" /\ ~ret.raised /\ arg.content.fmt = "json") =>
           ret.transactions = KeptRows("processor", arg.content.items)
    /\ (op = "process_file_in_memory" /\ ~ret.raised /\ arg.content.fmt = "pdf") =>
           ret.transactions
               = KeptLines(AllLines(arg.content.pages, Len(arg.content.pages)))

\* A batch of two files that both yield transactions returned its reports.
C10_Witness ==
    /\ op = "process_files"
    /\ pc = "done"
    /\ ~ret.raised
    /\ Len(arg) = 2
    /\ FileTransactions(arg[1]) # <<>>
    /\ FileTransactions(arg[2]) # <<>>
    /\ FileTransactions(arg[1]) # FileTransactions(arg[2])
    /\ Len(ret.reports.transactions) >= 3

\* The characters of the currency symbols either parse_amount removes.
CurrencyCharacters == {"RUPEE", "$", "EURO", "A_CIRC", "LOW9", "SUP1"}

\* No text value of the row holds one of them.
NoCurrencySymbol(row) ==
    \A i \in 1..Len(row) :
        row[i][2].kind = "str" =>
            \A j \in 1..Len(row[i][2].s) : row[i][2].s[j] \notin CurrencyCharacters

\* C11: on a row whose values hold no currency symbol the two
\* extract_transaction agree: what one returned is what the other returns,
\* both absent or both the same date, description, amount, category and type;
\* and the two generate_reports return equal reports of equal lists.
C11_ImplementationsAgree ==
    /\ (op \in Extractors /\ NoCurrencySymbol(arg)) =>
           /\ ret = extract_transaction(arg)
           /\ ret = FinancialProcessor_extract_transaction(arg)
    /\ (op \in Aggregators) =>
           /\ ret.whole = generate_reports(arg.transactions)
           /\ ret.whole = FinancialProcessor_generate_reports(arg.transactions)


====
